---- MODULE Spec2Model ----
(***************************************************************************)
(* A model of the ARGO ingestion-and-indexing pipeline                     *)
(* (src/backend/argo_data_pipeline.py): the region classifier, the NetCDF  *)
(* decoder, the relational store with merge-by-key, the TF-IDF vector      *)
(* index with its pickle persistence, the directory run and the query      *)
(* surface.                                                                *)
(*                                                                         *)
(* Representation.  Coordinates and readings are integers; NaN is a        *)
(* sentinel for which every comparison is false.  A text is the sequence   *)
(* of its lower-cased tokens of two or more word characters (the           *)
(* vectorizer's token pattern).  A TF-IDF vector holds the term counts:    *)
(* the vectorizer is fit on a single document, so every idf is             *)
(* ln(2/2)+1 = 1, and the L2 normalisation is a positive scaling that the  *)
(* cosine similarity cancels.  A similarity is the pair <<dot^2, |a|^2     *)
(* |b|^2>> of the squared cosine, compared by cross multiplication.        *)
(***************************************************************************)
EXTENDS Integers, Sequences, FiniteSets, TLC

VARIABLES
    nc_files,       \* the *.nc files of the directory: a sequence of datasets
    dir_exists,     \* whether the directory path exists
    pc,             \* position of process_directory: idle, decode, store, index
    file_idx,       \* index in nc_files of the file being processed
    runs,           \* number of process_directory calls started
    float_data,     \* process_directory's local: Measurements of the file
    profile_data,   \* process_directory's local: the Profile dict of the file
    log,            \* per file of the current run: "ok" or "failed" (the logger)
    argo_floats,    \* table argo_floats: a set of rows
    argo_profiles,  \* table argo_profiles: a set of rows
    engine,         \* self.engine is set
    Session,        \* self.Session is set
    open_sessions,  \* sessions opened and not closed
    vectorizer,     \* self.vectorizer: [fitted, vocabulary]
    vector_store,   \* self.vector_store: an insertion-ordered dict, as a sequence
    disk,           \* the pickle file of save_vector_store
    saved,          \* history: the index state at the last successful save
    embed_lens,     \* history: lengths of the vectors create_vector_embedding made
    clock,          \* the wall clock
    import_time,    \* when the process imported the module: the created_at default
    call,           \* the last call made on the public surface, with its inputs
    ret             \* what that call returned

vars == <<nc_files, dir_exists, pc, file_idx, runs, float_data, profile_data, log,
          argo_floats, argo_profiles, engine, Session, open_sessions,
          vectorizer, vector_store, disk, saved, embed_lens, clock, import_time,
          call, ret>>

----------------------------------------------------------------------------
(* Bounds of the model. *)

MaxProfiles == 2
MaxLevels == 2
MaxFiles == 2
MaxRuns == 2

----------------------------------------------------------------------------
(* Floats. *)

NaN == -9999

isnan(x) == x = NaN

\* IEEE comparison: false as soon as one side is NaN.
Le(a, b) == ~isnan(a) /\ ~isnan(b) /\ a <= b
Lt(a, b) == ~isnan(a) /\ ~isnan(b) /\ a < b

Range(s) == {s[i] : i \in DOMAIN s}

RECURSIVE SumSeq(_)
SumSeq(s) == IF s = <<>> THEN 0 ELSE Head(s) + SumSeq(Tail(s))

SetMin(S) == CHOOSE x \in S : \A y \in S : x <= y
SetMax(S) == CHOOSE x \in S : \A y \in S : x >= y

\* min(list), max(list), np.mean(list) of a non-empty list; the mean is kept
\* as the exact fraction sum/count.
StatRange(list) ==
    [min |-> SetMin(Range(list)), max |-> SetMax(Range(list)),
     mean |-> <<SumSeq(list), Len(list)>>]

----------------------------------------------------------------------------
(* RegionClassifier. *)

determine_ocean_region_swapped(lat, lon) ==
    IF Le(-180, lon) /\ Le(lon, -60) /\ Le(10, lat) /\ Le(lat, 70) THEN "North Atlantic"
    ELSE IF Le(60, lon) /\ Le(lon, 180) /\ Le(10, lat) /\ Le(lat, 70) THEN "North Pacific"
    ELSE IF Le(-60, lon) /\ Le(lon, 20) /\ Le(-60, lat) /\ Le(lat, 10) THEN "South Atlantic"
    ELSE IF Le(20, lon) /\ Le(lon, 120) /\ Le(-40, lat) /\ Le(lat, 30) THEN "Indian Ocean"
    ELSE IF Le(20, lon) /\ Le(lon, 180) /\ Le(-60, lat) /\ Le(lat, 10) THEN "South Pacific"
    ELSE IF Lt(70, lat) THEN "Arctic Ocean"
    ELSE IF Lt(lat, -60) THEN "Southern Ocean"
    ELSE "Unknown"

determine_ocean_region(lat, lon) ==
    IF Le(-180, lon) /\ Le(lon, -60) /\ Le(10, lat) /\ Le(lat, 70) THEN "North Atlantic"
    ELSE IF Le(60, lon) /\ Le(lon, 180) /\ Le(10, lat) /\ Le(lat, 70) THEN "North Pacific"
    ELSE IF Le(-60, lon) /\ Le(lon, 20) /\ Le(-60, lat) /\ Le(lat, 10) THEN "South Atlantic"
    ELSE IF Le(20, lon) /\ Le(lon, 180) /\ Le(-60, lat) /\ Le(lat, 10) THEN "South Pacific"
    ELSE IF Le(20, lon) /\ Le(lon, 120) /\ Le(-40, lat) /\ Le(lat, 30) THEN "Indian Ocean"
    ELSE IF Lt(70, lat) THEN "Arctic Ocean"
    ELSE IF Lt(lat, -60) THEN "Southern Ocean"
    ELSE "Unknown"

----------------------------------------------------------------------------
(* UnitConverter.  Depths are kept in micrometres, so that                 *)
(* pressure * 1.019716 is exact.                                           *)

\* A NaN pressure gives a NaN depth.
pressure_to_depth(pressure) == IF isnan(pressure) THEN NaN ELSE pressure * 1019716

\* f"{x:.0f}" of a depth: the nearest whole metre.
FormatWhole(depth) == (depth + 500000) \div 1000000

----------------------------------------------------------------------------
(* Texts, as token sequences. *)

\* The words of sklearn's english stop list that the texts of the model use.
StopWords == {"at", "in", "with", "the", "of", "and"}

\* The tokens of f"{x:.2f}" for a whole x: the integer part when it has two
\* digits or more (a single character is no token), then the decimals "00".
Fmt2Tokens(x) ==
    LET a == IF x < 0 THEN -x ELSE x
    IN  (IF a >= 10 THEN <<ToString(a)>> ELSE <<>>) \o <<"00">>

\* The tokens of str(n) for a whole n >= 0.
IntTokens(n) == IF n >= 10 THEN <<ToString(n)>> ELSE <<>>

RegionTokens(region) ==
    CASE region = "North Atlantic" -> <<"north", "atlantic">>
      [] region = "North Pacific"  -> <<"north", "pacific">>
      [] region = "South Atlantic" -> <<"south", "atlantic">>
      [] region = "South Pacific"  -> <<"south", "pacific">>
      [] region = "Indian Ocean"   -> <<"indian", "ocean">>
      [] region = "Arctic Ocean"   -> <<"arctic", "ocean">>
      [] region = "Southern Ocean" -> <<"southern", "ocean">>
      [] OTHER                     -> <<"unknown">>

\* The summary sentence of a profile (lines 255-260), tokenised.
SummaryText(platform_number, cycle_number, lat, lon, region, n, temp_list, sal_list, max_depth) ==
    <<"argo", "float", platform_number, "profile">> \o IntTokens(cycle_number)
    \o <<"at">> \o Fmt2Tokens(lat) \o Fmt2Tokens(lon)
    \o <<"in">> \o RegionTokens(region)
    \o <<"with">> \o IntTokens(n) \o <<"measurements", "temperature", "range">>
    \o Fmt2Tokens(SetMin(Range(temp_list))) \o Fmt2Tokens(SetMax(Range(temp_list)))
    \o <<"salinity", "range">>
    \o Fmt2Tokens(SetMin(Range(sal_list))) \o Fmt2Tokens(SetMax(Range(sal_list)))
    \o <<"psu", "depth", "range", ToString(FormatWhole(max_depth)) \o "m">>

----------------------------------------------------------------------------
(* DatasetDecoder + ProfileAggregator.                                     *)
(*                                                                         *)
(* A dataset is [file_path, opens, platform_number, N_PROF], N_PROF the    *)
(* sequence of its profiles [reads, CYCLE_NUMBER, LATITUDE, LONGITUDE,     *)
(* JULD, TEMP, PSAL, PRES]; opens = FALSE is a file xarray cannot open,    *)
(* reads = FALSE a profile index whose scalars cannot be read (a missing   *)
(* variable, a NaN cycle number).  Python's 0-based indices are kept in    *)
(* level_index and in the ids.                                             *)

EmptyDict == <<>>
EmptyList == <<>>

\* datetime.now(timezone.utc): later than every JULD of the model's files.
Now(clk) == 1000 + clk

\* Lines 190-198: NaT and a failed conversion both give the current time.
ProfileTime(juld, now) == IF isnan(juld) THEN now ELSE juld

\* Line 219.
LevelValidTempOnly(p, l) == ~isnan(p.TEMP[l])

LevelValid(p, l) == ~(isnan(p.TEMP[l]) \/ isnan(p.PSAL[l]) \/ isnan(p.PRES[l]))

\* Lines 222-242; l is the 1-based position, level_idx = l - 1.
Measurement(ds, p, l, now) ==
    [id               |-> <<ds.platform_number, p.CYCLE_NUMBER, l - 1>>,
     platform_number  |-> ds.platform_number,
     cycle_number     |-> p.CYCLE_NUMBER,
     latitude         |-> p.LATITUDE,
     longitude        |-> p.LONGITUDE,
     measurement_time |-> ProfileTime(p.JULD, now),
     temperature      |-> p.TEMP[l],
     salinity         |-> p.PSAL[l],
     pressure         |-> p.PRES[l],
     depth            |-> pressure_to_depth(p.PRES[l]),
     quality_flag     |-> "good",
     ocean_region     |-> determine_ocean_region(p.LATITUDE, p.LONGITUDE),
     data_source      |-> ds.file_path,
     metadata         |-> [level_index |-> l - 1, file_source |-> ds.file_path]]

\* Lines 213-247: the loop over the levels, from level l on.
RECURSIVE ValidMeasurements(_, _, _, _)
ValidMeasurements(ds, p, l, now) ==
    IF l > Len(p.TEMP) THEN <<>>
    ELSE (IF LevelValid(p, l) THEN <<Measurement(ds, p, l, now)>> ELSE <<>>)
         \o ValidMeasurements(ds, p, l + 1, now)

\* Lines 253-295; vm is the non-empty list valid_measurements.
ProfileSummary(ds, p, vm, now) ==
    LET temp_list == [i \in DOMAIN vm |-> vm[i].temperature]
        sal_list  == [i \in DOMAIN vm |-> vm[i].salinity]
        pres_list == [i \in DOMAIN vm |-> vm[i].pressure]
        max_depth == SetMax({vm[i].depth : i \in DOMAIN vm})
        region    == determine_ocean_region(p.LATITUDE, p.LONGITUDE)
    IN  [id                  |-> <<ds.platform_number, p.CYCLE_NUMBER>>,
         platform_number     |-> ds.platform_number,
         cycle_number        |-> p.CYCLE_NUMBER,
         profile_date        |-> ProfileTime(p.JULD, now),
         latitude            |-> p.LATITUDE,
         longitude           |-> p.LONGITUDE,
         max_depth           |-> max_depth,
         num_measurements    |-> Len(vm),
         temperature_range   |-> StatRange(temp_list),
         salinity_range      |-> StatRange(sal_list),
         pressure_range      |-> StatRange(pres_list),
         ocean_region        |-> region,
         data_quality_score  |-> <<Len(vm), Len(p.TEMP)>>,
         summary_text        |-> SummaryText(ds.platform_number, p.CYCLE_NUMBER,
                                    p.LATITUDE, p.LONGITUDE, region, Len(vm),
                                    temp_list, sal_list, max_depth),
         file_source         |-> ds.file_path,
         processing_metadata |-> [processed_at |-> now,
                                  total_levels |-> Len(p.TEMP),
                                  valid_levels |-> Len(vm)]]

\* Lines 182-295: the loop over the profile indices, from index c on, with the
\* locals float_data and profile_data as they stand.
RECURSIVE ProfileLoop(_, _, _, _, _)
ProfileLoop(ds, c, fd, pd, now) ==
    IF c > Len(ds.N_PROF) THEN [float_data |-> fd, profile_data |-> pd]
    ELSE LET p  == ds.N_PROF[c]
             vm == ValidMeasurements(ds, p, 1, now)
         IN  ProfileLoop(ds, c + 1, fd \o vm,
                         IF vm # <<>> THEN ProfileSummary(ds, p, vm, now) ELSE pd,
                         now)

\* A decoder whose handler returns what the loop had built when the
\* exception came.
process_netcdf_file_partial(ds, now) ==
    IF ~ds.opens THEN [float_data |-> EmptyList, profile_data |-> EmptyDict]
    ELSE LET bad  == {c \in DOMAIN ds.N_PROF : ~ds.N_PROF[c].reads}
             upto == IF bad = {} THEN Len(ds.N_PROF) ELSE SetMin(bad) - 1
         IN  ProfileLoop([ds EXCEPT !.N_PROF = SubSeq(ds.N_PROF, 1, upto)],
                         1, EmptyList, EmptyDict, now)

\* Lines 167-303.  Any exception, at whatever profile index, leaves the
\* function through the handler of line 301.
process_netcdf_file(ds, now) ==
    IF ~ds.opens \/ \E c \in DOMAIN ds.N_PROF : ~ds.N_PROF[c].reads
    THEN [float_data |-> EmptyList, profile_data |-> EmptyDict]
    ELSE ProfileLoop(ds, 1, EmptyList, EmptyDict, now)

----------------------------------------------------------------------------
(* Inputs of the pure functions. *)

\* Coordinates on, next to and far from every bound of the classifier.
Lats == {NaN, -90, -61, -60, -59, -41, -40, -39, 0, 9, 10, 11, 29, 30, 31, 69, 70, 71, 90}
Lons == {NaN, -200, -180, -179, -61, -60, -59, 0, 19, 20, 21, 59, 60, 61, 119, 120, 121, 180, 200}

\* A depth level <<temperature, salinity, pressure>>: all three read, or
\* reading number nan of them NaN.
Level(valid, nan) ==
    IF valid THEN <<5, 35, 10>> ELSE [<<5, 35, 10>> EXCEPT ![nan] = NaN]

\* Profile c of a generated dataset: level l is valid when ok[l], its cycle
\* number is c (distinct cycles) or 1 (every profile in the same cycle).
GenProfile(c, ok, nan, same) ==
    [reads |-> TRUE, CYCLE_NUMBER |-> IF same THEN 1 ELSE c,
     LATITUDE |-> 45, LONGITUDE |-> -100, JULD |-> 10,
     TEMP |-> [l \in DOMAIN ok |-> Level(ok[l], nan)[1]],
     PSAL |-> [l \in DOMAIN ok |-> Level(ok[l], nan)[2]],
     PRES |-> [l \in DOMAIN ok |-> Level(ok[l], nan)[3]]]

\* Every dataset of at most maxP profiles by at most maxN levels, each level
\* valid or not, the invalid levels of a file lacking the same reading.
GenDatasets(maxP, maxN) ==
    UNION {
        {[file_path |-> "gen.nc", opens |-> TRUE, platform_number |-> "1901",
          N_PROF |-> [c \in 1..P |-> GenProfile(c, m[c], nan, same)]] :
            m \in [1..P -> [1..N -> BOOLEAN]], nan \in 1..3, same \in BOOLEAN} :
        P \in 0..maxP, N \in 0..maxN}

\* The generated datasets with one profile index that cannot be read.
FailingDatasets(maxP, maxN) ==
    UNION {{[ds EXCEPT !.N_PROF[c].reads = FALSE] : c \in DOMAIN ds.N_PROF} :
              ds \in GenDatasets(maxP, maxN)}

\* A file that xarray cannot open.
CorruptFile ==
    [file_path |-> "corrupt.nc", opens |-> FALSE, platform_number |-> "unknown",
     N_PROF |-> <<>>]

----------------------------------------------------------------------------
(* Store: the tables argo_floats and argo_profiles, each a set of rows.    *)

\* A column left unset by the decoder and by store_to_postgresql: the empty
\* tuple, which is no value of a column that is set.
NULL == <<>>

\* json.dumps of a list (line 387): a string that holds the list.
json_dumps(list) == <<"json", list>>

\* The row a new object is inserted as: its attributes, and the column
\* defaults for the columns it leaves unset.
InsertRow(obj, defaults) ==
    [k \in (DOMAIN obj) \cup (DOMAIN defaults) |->
        IF k \in DOMAIN obj THEN obj[k] ELSE defaults[k]]

\* The row an existing row becomes: the object's attributes overwrite it,
\* the columns the object leaves unset keep their values.
UpdateRow(row, obj) ==
    [k \in DOMAIN row |-> IF k \in DOMAIN obj THEN obj[k] ELSE row[k]]

\* A merge that inserts without looking for the primary key.
MergeAlwaysInsert(table, obj, defaults) == table \cup {InsertRow(obj, defaults)}

\* session.merge (lines 322, 327): insert or overwrite by primary key.
Merge(table, obj, defaults) ==
    LET old == {r \in table : r.id = obj.id}
    IN  IF old = {} THEN table \cup {InsertRow(obj, defaults)}
        ELSE (table \ old) \cup {UpdateRow(r, obj) : r \in old}

\* Lines 320-322: the first k Measurements merged into the table.
RECURSIVE MergeFloats(_, _, _, _)
MergeFloats(table, fd, k, defaults) ==
    IF k = 0 THEN table
    ELSE Merge(MergeFloats(table, fd, k - 1, defaults), fd[k], defaults)

\* A rollback that leaves the flushed rows in the tables.
RollbackKeepsFlushed(before, flushed) == flushed

\* session.rollback (line 333): the tables as they were when the session began.
Rollback(before, flushed) == before

\* Lines 317-337, a session on the tables db = [floats, profiles].  fail_at
\* is the statement that raises: 0 none, k in 1..Len(fd) the merge of
\* Measurement k, Len(fd)+1 the merge of the Profile, Len(fd)+2 the commit.
\* The result: the tables, whether the exception is re-raised, and the
\* sessions left open.
StoreSession(db, fd, pd, fail_at, created_at) ==
    LET fdef   == [created_at |-> created_at]
        pdef   == [created_at |-> created_at, vector_embedding |-> NULL]
        nf     == IF fail_at = 0 THEN Len(fd)
                  ELSE IF fail_at <= Len(fd) THEN fail_at - 1 ELSE Len(fd)
        np     == pd # EmptyDict /\ (fail_at = 0 \/ fail_at = Len(fd) + 2)
        merged == [floats   |-> MergeFloats(db.floats, fd, nf, fdef),
                   profiles |-> IF np THEN Merge(db.profiles, pd, pdef)
                                ELSE db.profiles]
    IN  IF fail_at = 0
        THEN [db |-> merged, raised |-> FALSE, open |-> 0]
        ELSE [db |-> Rollback(db, merged), raised |-> TRUE, open |-> 0]

\* Lines 109-145, by what goes wrong: "ok", "no_engine" (create_engine
\* raises: neither field is set), "no_tables" (both fields are set, then
\* create_all or an index statement raises).
InitializeDatabase(outcome) ==
    [engine  |-> outcome # "no_engine",
     Session |-> outcome # "no_engine",
     result  |-> outcome = "ok"]

\* Lines 310-337.  e and s are self.engine and self.Session before the call.
store_to_postgresql(db, e, s, fd, pd, init_outcome, fail_at, created_at) ==
    LET init == IF ~e THEN InitializeDatabase(init_outcome)
                ELSE [engine |-> e, Session |-> s, result |-> TRUE]
    IN  IF ~init.Session
        THEN [db |-> db, raised |-> TRUE, open |-> 0,
              engine |-> init.engine, Session |-> init.Session]
        ELSE LET r == StoreSession(db, fd, pd, fail_at, created_at)
             IN  [db |-> r.db, raised |-> r.raised, open |-> r.open,
                  engine |-> init.engine, Session |-> init.Session]

----------------------------------------------------------------------------
(* EmbeddingIndex. *)

max_features == 1000
FallbackLen == 1000

\* The one element of a set of one element: an expression is evaluated once
\* and its value is named.
The(S) == CHOOSE v \in S : TRUE

\* The distinct tokens of a text that are no stop words, in the order of
\* their first appearance.  (sklearn sorts the vocabulary, which permutes the
\* coordinates of every vector alike.)
Vocabulary(text) ==
    LET Ordered(first) ==
            [k \in 1..Cardinality(first) |->
                text[CHOOSE i \in first : Cardinality({j \in first : j <= i}) = k]]
    IN  The({Ordered(first) :
                first \in {{i \in DOMAIN text :
                               /\ text[i] \notin StopWords
                               /\ \A j \in 1..(i - 1) : text[j] # text[i]}}})

Unfitted == [fitted |-> FALSE, vocabulary |-> <<>>]

\* TfidfVectorizer.fit([text]) (line 346): raises on an empty vocabulary and
\* then leaves the vectorizer without vocabulary_. No text of the model has
\* more than max_features distinct words.
Fit(text) ==
    LET voc == Vocabulary(text)
    IN  IF voc = <<>> THEN [raised |-> TRUE, vectorizer |-> Unfitted]
        ELSE [raised |-> FALSE,
              vectorizer |-> [fitted |-> TRUE,
                              vocabulary |-> SubSeq(voc, 1,
                                  IF Len(voc) < max_features THEN Len(voc)
                                  ELSE max_features)]]

\* vectorizer.transform([text]).toarray()[0] (lines 349-351).
Transform(vz, text) ==
    LET Counts(voc) ==
            [i \in DOMAIN voc |-> Cardinality({j \in DOMAIN text : text[j] = voc[i]})]
    IN  The({Counts(voc) : voc \in {vz.vocabulary}})

\* np.zeros(1000) (line 358).
ZeroVector(vz) == [i \in 1..FallbackLen |-> 0]

\* An embedding that fits the vectorizer on every text it is given.
create_vector_embedding_refit(vz, text) ==
    IF Fit(text).raised THEN [vector |-> ZeroVector(vz), vectorizer |-> vz]
    ELSE [vector |-> Transform(Fit(text).vectorizer, text),
          vectorizer |-> Fit(text).vectorizer]

\* Lines 339-358: the vector, and the vectorizer after the call.
create_vector_embedding(vz, text) ==
    LET Embedded(f) ==
            IF f.raised THEN [vector |-> ZeroVector(vz), vectorizer |-> vz]
            ELSE [vector |-> Transform(f.vectorizer, text), vectorizer |-> f.vectorizer]
    IN  The({Embedded(f) :
                f \in {IF vz.fitted THEN [raised |-> FALSE, vectorizer |-> vz]
                       ELSE Fit(text)}})

\* The position of key id in the dict, 0 when absent.
KeyIndex(vs, id) ==
    IF \E i \in DOMAIN vs : vs[i].profile_id = id
    THEN CHOOSE i \in DOMAIN vs : vs[i].profile_id = id
    ELSE 0

\* dict[key] = value (line 372): a present key keeps its place.
DictSet(vs, entry) ==
    LET i == KeyIndex(vs, entry.profile_id)
    IN  IF i = 0 THEN Append(vs, entry) ELSE [vs EXCEPT ![i] = entry]

\* Lines 360-393 for a non-empty profile_data: the vector store, the
\* vectorizer and the caller's profile_data dict after the call.
store_to_vector_database(vs, vz, pd) ==
    LET Entry(e) ==
            [profile_id |-> pd.id,
             vector     |-> e.vector,
             metadata   |-> [platform_number   |-> pd.platform_number,
                             ocean_region      |-> pd.ocean_region,
                             latitude          |-> pd.latitude,
                             longitude         |-> pd.longitude,
                             profile_date      |-> pd.profile_date,
                             temperature_range |-> pd.temperature_range,
                             salinity_range    |-> pd.salinity_range],
             text       |-> pd.summary_text]
        Stored(e) ==
            [vector_store |-> The({DictSet(vs, entry) : entry \in {Entry(e)}}),
             vectorizer   |-> e.vectorizer,
             vector       |-> e.vector,
             profile_data |-> InsertRow([vector_embedding |-> json_dumps(e.vector)], pd)]
    IN  The({Stored(e) : e \in {create_vector_embedding(vz, pd.summary_text)}})

Dot(a, b) == SumSeq([i \in DOMAIN a |-> a[i] * b[i]])

\* cosine_similarity([a], [b])[0][0] for vectors of one length, as the
\* fraction <<dot^2, |a|^2 |b|^2>>; a zero vector has similarity 0.
Cosine(a, b) ==
    IF Dot(a, a) = 0 \/ Dot(b, b) = 0 THEN <<0, 1>>
    ELSE <<Dot(a, b) * Dot(a, b), Dot(a, a) * Dot(b, b)>>

\* x > y for two such fractions (the dot products are never negative).
SimGreater(x, y) == x[1] * y[2] > y[1] * x[2]

\* An insertion that puts an entry before the entries of equal similarity.
RECURSIVE InsertDescBeforeEqual(_, _)
InsertDescBeforeEqual(sorted, x) ==
    IF sorted = <<>> THEN <<x>>
    ELSE IF SimGreater(Head(sorted).similarity, x.similarity)
         THEN <<Head(sorted)>> \o InsertDescBeforeEqual(Tail(sorted), x)
         ELSE <<x>> \o sorted

\* Where list.sort(key=similarity, reverse=True) (line 417) puts x among the
\* entries that came before it: after every entry not smaller than it.
RECURSIVE InsertDesc(_, _)
InsertDesc(sorted, x) ==
    IF sorted = <<>> THEN <<x>>
    ELSE IF SimGreater(x.similarity, Head(sorted).similarity)
         THEN <<x>> \o sorted
         ELSE <<Head(sorted)>> \o InsertDesc(Tail(sorted), x)

RECURSIVE SortDesc(_, _)
SortDesc(list, k) ==
    IF k = 0 THEN <<>> ELSE InsertDesc(SortDesc(list, k - 1), list[k])

\* list[:n] (line 418).
SliceTo(list, n) ==
    LET m == IF n >= 0 THEN n ELSE Len(list) + n
    IN  SubSeq(list, 1, IF m < 0 THEN 0 ELSE IF m > Len(list) THEN Len(list) ELSE m)

\* Lines 395-422: the result, and the vectorizer after the call.
search_similar_profiles(vs, vz, query_text, top_k) ==
    IF vs = <<>> THEN [result |-> <<>>, vectorizer |-> vz, vector |-> <<>>, embedded |-> FALSE]
    ELSE LET e == create_vector_embedding(vz, query_text)
             similarities ==
                 [i \in DOMAIN vs |->
                     [profile_id |-> vs[i].profile_id,
                      similarity |-> Cosine(e.vector, vs[i].vector),
                      metadata   |-> vs[i].metadata,
                      text       |-> vs[i].text]]
         IN  IF \E i \in DOMAIN vs : Len(vs[i].vector) # Len(e.vector)
             THEN [result |-> <<>>, vectorizer |-> e.vectorizer,
                   vector |-> e.vector, embedded |-> TRUE]
             ELSE [result |-> SliceTo(SortDesc(similarities, Len(similarities)), top_k),
                   vectorizer |-> e.vectorizer, vector |-> e.vector, embedded |-> TRUE]

\* pickle.dump of the dict of lines 458-461: its items, in order.
Pickle(vs, vz) == <<<<"vector_store", vs>>, <<"vectorizer", vz>>>>

\* data[key] of the unpickled dict.
Lookup(blob, key) == blob[CHOOSE i \in DOMAIN blob : blob[i][1] = key][2]

\* A load that restores the vector table and keeps the vectorizer it has.
LoadTableOnly(blob, vs, vz) == [vector_store |-> Lookup(blob, "vector_store"), vectorizer |-> vz]

\* Lines 471-473.
LoadBlob(blob, vs, vz) ==
    [vector_store |-> Lookup(blob, "vector_store"),
     vectorizer   |-> Lookup(blob, "vectorizer")]

----------------------------------------------------------------------------
(* Query surface. *)

QueryLimit == 1000

\* An optional argument is <<>> (None, or the empty string) or <<value>>; a
\* range is <<>> or <<low, high>>.
\* The filters of lines 495-514.
QueryFilter(row, region, start_date, end_date, temperature_range, salinity_range) ==
    /\ region = <<>> \/ region[1] = "Unknown" \/ row.ocean_region = region[1]
    /\ start_date = <<>> \/ row.measurement_time >= start_date[1]
    /\ end_date = <<>> \/ row.measurement_time <= end_date[1]
    /\ \/ temperature_range = <<>>
       \/ Le(temperature_range[1], row.temperature) /\ Le(row.temperature, temperature_range[2])
    /\ \/ salinity_range = <<>>
       \/ Le(salinity_range[1], row.salinity) /\ Le(row.salinity, salinity_range[2])

\* Lines 521-530.
ResultDict(row) ==
    [time |-> row.measurement_time, latitude |-> row.latitude,
     longitude |-> row.longitude, temperature |-> row.temperature,
     salinity |-> row.salinity, depth |-> row.depth,
     platform_number |-> row.platform_number, ocean_region |-> row.ocean_region]

\* The rows of a set in the order the database returns them: some order.
RECURSIVE RowsInSomeOrder(_)
RowsInSomeOrder(rows) ==
    IF rows = {} THEN <<>>
    ELSE LET r == CHOOSE x \in rows : TRUE
         IN  <<r>> \o RowsInSomeOrder(rows \ {r})

\* query.limit(1000).all() (line 516) on the matching rows: all of them, or
\* the subset kept of QueryLimit rows.
Limited(matching, kept) ==
    IF Cardinality(matching) <= QueryLimit THEN matching ELSE kept

\* The rows that pass the filters of the arguments a.
Matching(floats, a) ==
    {r \in floats : QueryFilter(r, a.region, a.start_date, a.end_date,
                                 a.temperature_range, a.salinity_range)}

\* Lines 481-542, by outcome: "no_session" (RuntimeError, line 489),
\* "query_error" (the handler of line 538) or "ok".
query_argo_data(floats, a, kept, outcome) ==
    LET results == RowsInSomeOrder(Limited(Matching(floats, a), kept))
        data    == [i \in DOMAIN results |-> ResultDict(results[i])]
    IN  CASE outcome = "no_session"  -> [raised |-> TRUE]
          [] outcome = "query_error" ->
                [raised |-> FALSE, success |-> FALSE, error |-> "str(e)"]
          [] OTHER -> [raised |-> FALSE, success |-> TRUE,
                       count |-> Len(data), data |-> data]

----------------------------------------------------------------------------
(* The files of the directory runs. *)

\* One profile at 45N 100W, three levels, the first with a NaN temperature.
FileA ==
    [file_path |-> "a.nc", opens |-> TRUE, platform_number |-> "1901",
     N_PROF |-> <<[reads |-> TRUE, CYCLE_NUMBER |-> 1, LATITUDE |-> 45,
                   LONGITUDE |-> -100, JULD |-> 10,
                   TEMP |-> <<NaN, 5, 20>>, PSAL |-> <<35, 35, 34>>,
                   PRES |-> <<10, 10, 20>>]>>]

\* Two profiles; the second has no timestamp (NaT).
FileB ==
    [file_path |-> "b.nc", opens |-> TRUE, platform_number |-> "2902",
     N_PROF |-> <<[reads |-> TRUE, CYCLE_NUMBER |-> 1, LATITUDE |-> -20,
                   LONGITUDE |-> 80, JULD |-> 20,
                   TEMP |-> <<10, NaN>>, PSAL |-> <<35, NaN>>, PRES |-> <<10, NaN>>],
                  [reads |-> TRUE, CYCLE_NUMBER |-> 2, LATITUDE |-> 5,
                   LONGITUDE |-> -170, JULD |-> NaN,
                   TEMP |-> <<2, 3>>, PSAL |-> <<34, 34>>, PRES |-> <<10, 20>>]>>]

Files == {FileA, FileB, CorruptFile}

\* The listings of at most MaxFiles distinct files, in every order.
Directories ==
    {d \in UNION {[1..n -> Files] : n \in 0..MaxFiles} :
        \A i, j \in DOMAIN d : i # j => d[i] # d[j]}

\* The Profiles that direct calls of store_to_vector_database index.
IndexProfiles ==
    {process_netcdf_file(f, Now(0)).profile_data : f \in {FileA, FileB}}

QueryTexts == {<<"argo", "float">>, <<"north", "atlantic", "profile">>, <<"the">>}
TopKs == {-1, 0, 1, 5}

RegionNames ==
    {"North Atlantic", "North Pacific", "South Atlantic", "South Pacific",
     "Indian Ocean", "Arctic Ocean", "Southern Ocean", "Unknown"}

NoFilter ==
    [region |-> <<>>, start_date |-> <<>>, end_date |-> <<>>,
     temperature_range |-> <<>>, salinity_range |-> <<>>]

\* Each region alone, and the other filters in every combination.
QueryArgs ==
    {[NoFilter EXCEPT !.region = <<r>>] : r \in RegionNames}
    \cup {[region |-> rg, start_date |-> sd, end_date |-> ed,
           temperature_range |-> tr, salinity_range |-> sr] :
            rg \in {<<>>, <<"North Atlantic">>}, sd \in {<<>>, <<11>>},
            ed \in {<<>>, <<20>>}, tr \in {<<>>, <<4, 6>>},
            sr \in {<<>>, <<35, 35>>}}

----------------------------------------------------------------------------
(* The state machine. *)

NoCall == [op |-> "none"]
NoRet == [done |-> FALSE]

\* A new process with a new ARGODataProcessor (lines 85-91), an empty
\* database and no pickle file.
InitProgram ==
    /\ pc = "idle"
    /\ file_idx = 0
    /\ runs = 0
    /\ float_data = EmptyList
    /\ profile_data = EmptyDict
    /\ log = <<>>
    /\ argo_floats = {}
    /\ argo_profiles = {}
    /\ engine = FALSE
    /\ Session = FALSE
    /\ open_sessions = 0
    /\ vectorizer = Unfitted
    /\ vector_store = <<>>
    /\ disk = [state |-> "absent"]
    /\ saved = [valid |-> FALSE]
    /\ embed_lens = {}
    /\ clock = 0
    /\ import_time = Now(0)
    /\ ret = NoRet

Init ==
    /\ InitProgram
    /\ dir_exists \in BOOLEAN
    /\ nc_files \in IF dir_exists THEN Directories ELSE {<<>>}
    /\ call = NoCall

program_vars ==
    <<pc, file_idx, runs, float_data, profile_data, log, argo_floats,
      argo_profiles, engine, Session, open_sessions, vectorizer, vector_store,
      disk, saved, embed_lens, clock, import_time>>

run_vars == <<file_idx, float_data, profile_data, log>>
db_vars == <<argo_floats, argo_profiles, engine, Session, open_sessions>>
index_vars == <<vectorizer, vector_store, embed_lens>>

\* Lines 435, 448-452: the file is done, logged as ok or failed; on to the
\* next file, or out of the loop.
FileDoneAbortOnFailure(outcome) ==
    /\ log' = Append(log, <<file_idx, outcome>>)
    /\ IF file_idx < Len(nc_files) /\ outcome = "ok"
       THEN pc' = "decode" /\ file_idx' = file_idx + 1
       ELSE pc' = "idle" /\ file_idx' = file_idx

FileDone(outcome) ==
    /\ log' = Append(log, <<file_idx, outcome>>)
    /\ IF file_idx < Len(nc_files)
       THEN pc' = "decode" /\ file_idx' = file_idx + 1
       ELSE pc' = "idle" /\ file_idx' = file_idx

\* process_directory is called (lines 424-435).
StartRun ==
    /\ pc = "idle"
    /\ runs < MaxRuns
    /\ runs' = runs + 1
    /\ call' = [op |-> "process_directory"]
    /\ log' = <<>>
    /\ float_data' = EmptyList
    /\ profile_data' = EmptyDict
    /\ IF dir_exists /\ nc_files # <<>>
       THEN pc' = "decode" /\ file_idx' = 1 /\ ret' = NoRet
       ELSE pc' = "idle" /\ file_idx' = 0 /\ ret' = [done |-> TRUE]
    /\ UNCHANGED <<nc_files, dir_exists, db_vars, index_vars, disk, saved, clock, import_time>>

\* Lines 438-440: the file is decoded; without Measurements it is done.
Decode ==
    /\ pc = "decode"
    /\ \E r \in {process_netcdf_file(nc_files[file_idx], Now(clock))} :
           /\ float_data' = r.float_data
           /\ profile_data' = r.profile_data
           /\ IF r.float_data = EmptyList
              THEN FileDone("ok")
              ELSE pc' = "store" /\ UNCHANGED <<file_idx, log>>
    /\ clock' = clock + 1
    /\ ret' = [done |-> pc' = "idle"]
    /\ UNCHANGED <<nc_files, dir_exists, runs, db_vars, index_vars, disk, saved,
                   import_time, call>>

\* A file loop that goes on to index the Profile of a file whose store call
\* raised.
StoreThenIndexAnyway ==
    /\ pc = "store"
    /\ \E init_outcome \in {"ok", "no_engine", "no_tables"},
          fail_at \in 0..(Len(float_data) + 2) :
          \E r \in {store_to_postgresql(
                       [floats |-> argo_floats, profiles |-> argo_profiles],
                       engine, Session, float_data, profile_data,
                       init_outcome, fail_at, import_time)} :
              /\ argo_floats' = r.db.floats
              /\ argo_profiles' = r.db.profiles
              /\ engine' = r.engine
              /\ Session' = r.Session
              /\ open_sessions' = open_sessions + r.open
              /\ IF profile_data # EmptyDict
                 THEN pc' = "index" /\ UNCHANGED <<file_idx, log>>
                 ELSE FileDone("ok")
    /\ ret' = [done |-> pc' = "idle"]
    /\ UNCHANGED <<nc_files, dir_exists, runs, float_data, profile_data,
                   index_vars, disk, saved, clock, import_time, call>>

\* Line 442, and line 445 when nothing was raised.
Store ==
    /\ pc = "store"
    /\ \E init_outcome \in {"ok", "no_engine", "no_tables"},
          fail_at \in 0..(Len(float_data) + 2) :
          \E r \in {store_to_postgresql(
                       [floats |-> argo_floats, profiles |-> argo_profiles],
                       engine, Session, float_data, profile_data,
                       init_outcome, fail_at, import_time)} :
              /\ argo_floats' = r.db.floats
              /\ argo_profiles' = r.db.profiles
              /\ engine' = r.engine
              /\ Session' = r.Session
              /\ open_sessions' = open_sessions + r.open
              /\ IF r.raised THEN FileDone("failed")
                 ELSE IF profile_data # EmptyDict
                      THEN pc' = "index" /\ UNCHANGED <<file_idx, log>>
                      ELSE FileDone("ok")
    /\ ret' = [done |-> pc' = "idle"]
    /\ UNCHANGED <<nc_files, dir_exists, runs, float_data, profile_data,
                   index_vars, disk, saved, clock, import_time, call>>

\* Lines 446-448.
Index ==
    /\ pc = "index"
    /\ \E r \in {store_to_vector_database(vector_store, vectorizer, profile_data)} :
           /\ vector_store' = r.vector_store
           /\ vectorizer' = r.vectorizer
           /\ profile_data' = r.profile_data
           /\ embed_lens' = embed_lens \cup {Len(r.vector)}
    /\ FileDone("ok")
    /\ ret' = [done |-> pc' = "idle"]
    /\ UNCHANGED <<nc_files, dir_exists, runs, float_data, db_vars, disk, saved,
                   clock, import_time, call>>

\* create_vector_embedding is called on a text.
Embed ==
    /\ pc = "idle"
    /\ \E text \in QueryTexts :
          LET r == create_vector_embedding(vectorizer, text)
          IN  /\ call' = [op |-> "create_vector_embedding", text |-> text]
              /\ ret' = [done |-> TRUE, value |-> r.vector]
              /\ vectorizer' = r.vectorizer
              /\ embed_lens' = embed_lens \cup {Len(r.vector)}
    /\ UNCHANGED <<nc_files, dir_exists, pc, runs, run_vars, db_vars,
                   vector_store, disk, saved, clock, import_time>>

\* search_similar_profiles is called.
Search ==
    /\ pc = "idle"
    /\ \E text \in QueryTexts, top_k \in TopKs :
          LET r == search_similar_profiles(vector_store, vectorizer, text, top_k)
          IN  /\ call' = [op |-> "search_similar_profiles", query_text |-> text,
                          top_k |-> top_k]
              /\ ret' = [done |-> TRUE, value |-> r.result, vector |-> r.vector]
              /\ vectorizer' = r.vectorizer
              /\ embed_lens' = IF r.embedded THEN embed_lens \cup {Len(r.vector)}
                               ELSE embed_lens
    /\ UNCHANGED <<nc_files, dir_exists, pc, runs, run_vars, db_vars,
                   vector_store, disk, saved, clock, import_time>>

\* save_vector_store is called (lines 454-464): written, not opened, or cut
\* short while it is written.
Save ==
    /\ pc = "idle"
    /\ \E outcome \in {"ok", "open_fails", "dump_fails"} :
          /\ call' = [op |-> "save_vector_store", outcome |-> outcome]
          /\ disk' = CASE outcome = "ok" ->
                            [state |-> "file", blob |-> Pickle(vector_store, vectorizer)]
                       [] outcome = "dump_fails" -> [state |-> "corrupt"]
                       [] OTHER -> disk
          /\ saved' = CASE outcome = "ok" ->
                            [valid |-> TRUE, vector_store |-> vector_store,
                             vectorizer |-> vectorizer]
                        [] outcome = "dump_fails" -> [valid |-> FALSE]
                        [] OTHER -> saved
    /\ ret' = [done |-> TRUE]
    /\ UNCHANGED <<nc_files, dir_exists, pc, runs, run_vars, db_vars, index_vars, clock,
                   import_time>>

\* load_vector_store is called (lines 466-478).
Load ==
    /\ pc = "idle"
    /\ call' = [op |-> "load_vector_store", found |-> disk.state # "absent",
                fresh |-> vector_store = <<>> /\ ~vectorizer.fitted]
    /\ IF disk.state = "file"
       THEN LET r == LoadBlob(disk.blob, vector_store, vectorizer)
            IN  /\ vector_store' = r.vector_store
                /\ vectorizer' = r.vectorizer
                /\ embed_lens' = {Len(r.vector_store[i].vector) : i \in DOMAIN r.vector_store}
                /\ ret' = [done |-> TRUE, value |-> TRUE]
       ELSE /\ UNCHANGED index_vars
            /\ ret' = [done |-> TRUE, value |-> FALSE]
    /\ UNCHANGED <<nc_files, dir_exists, pc, runs, run_vars, db_vars, disk, saved, clock, import_time>>

\* A new process with a new ARGODataProcessor (lines 85-91); the database
\* and the pickle file stay.
NewProcessor ==
    /\ pc = "idle"
    /\ call' = [op |-> "ARGODataProcessor"]
    /\ ret' = [done |-> TRUE]
    /\ engine' = FALSE
    /\ Session' = FALSE
    /\ vectorizer' = Unfitted
    /\ vector_store' = <<>>
    /\ embed_lens' = {}
    /\ UNCHANGED <<nc_files, dir_exists, pc, runs, run_vars, argo_floats,
                   argo_profiles, open_sessions, disk, saved, clock, import_time>>

\* query_argo_data is called, on a processor of its own.
Query ==
    /\ pc = "idle"
    /\ \E a \in QueryArgs, outcome \in {"ok", "no_session", "query_error"} :
          \E kept \in IF Cardinality(Matching(argo_floats, a)) <= QueryLimit
                      THEN {Matching(argo_floats, a)}
                      ELSE {k \in SUBSET Matching(argo_floats, a) :
                               Cardinality(k) = QueryLimit} :
             /\ call' = [op |-> "query_argo_data", args |-> a]
             /\ ret' = [done |-> TRUE,
                        value |-> query_argo_data(argo_floats, a, kept, outcome)]
    /\ UNCHANGED <<nc_files, dir_exists, program_vars>>

\* store_to_vector_database is called on the Profile of a decoded file.
IndexProfile ==
    /\ pc = "idle"
    /\ \E pd \in IndexProfiles :
          LET r == store_to_vector_database(vector_store, vectorizer, pd)
          IN  /\ call' = [op |-> "store_to_vector_database", id |-> pd.id]
              /\ ret' = [done |-> TRUE]
              /\ vector_store' = r.vector_store
              /\ vectorizer' = r.vectorizer
              /\ embed_lens' = embed_lens \cup {Len(r.vector)}
    /\ UNCHANGED <<nc_files, dir_exists, pc, runs, run_vars, db_vars, disk,
                   saved, clock, import_time>>

\* The ingestion: directory runs against the store and the index.
Next ==
    \/ StartRun
    \/ Decode
    \/ Store
    \/ Index
    \/ NewProcessor

Spec == Init /\ [][Next]_vars

\* The embedding index on its own: profiles are indexed by direct calls.
InitIndex ==
    /\ InitProgram
    /\ dir_exists = FALSE
    /\ nc_files = <<>>
    /\ call = NoCall

NextIndex ==
    \/ IndexProfile
    \/ Embed
    \/ Search
    \/ Save
    \/ Load
    \/ NewProcessor

SpecIndex == InitIndex /\ [][NextIndex]_vars

\* process_directory runs to its end: asyncio drives the coroutine until it
\* returns.
LiveSpec == Spec /\ WF_vars(Decode \/ Store \/ Index)

\* The query surface on its own, on the tables that committed files leave.
RECURSIVE TablesAfter(_, _)
TablesAfter(d, k) ==
    IF k = 0 THEN [floats |-> {}, profiles |-> {}]
    ELSE LET r == process_netcdf_file(d[k], Now(k))
         IN  StoreSession(TablesAfter(d, k - 1), r.float_data, r.profile_data, 0, Now(0)).db

InitQuery ==
    /\ InitProgram
    /\ dir_exists = TRUE
    /\ nc_files \in Directories
    /\ call = NoCall

\* The files of the directory have been ingested.
Ingested ==
    /\ call.op = "none"
    /\ call' = [op |-> "process_directory"]
    /\ argo_floats' = TablesAfter(nc_files, Len(nc_files)).floats
    /\ argo_profiles' = TablesAfter(nc_files, Len(nc_files)).profiles
    /\ UNCHANGED <<nc_files, dir_exists, pc, runs, run_vars, engine, Session,
                   open_sessions, index_vars, disk, saved, clock, import_time, ret>>

NextQuery ==
    \/ Ingested
    \/ Query

SpecQuery == InitQuery /\ [][NextQuery]_vars

\* The pure functions on their own: the inputs are drawn, the function is
\* applied.
InitRegion ==
    /\ InitProgram
    /\ dir_exists = FALSE
    /\ nc_files = <<>>
    /\ call \in {[op |-> "determine_ocean_region", lat |-> lat, lon |-> lon] :
                    lat \in Lats, lon \in Lons}

Classify ==
    /\ call.op = "determine_ocean_region"
    /\ ~ret.done
    /\ ret' = [done |-> TRUE, value |-> determine_ocean_region(call.lat, call.lon)]
    /\ UNCHANGED <<nc_files, dir_exists, program_vars, call>>

SpecRegion == InitRegion /\ [][Classify]_vars

InitDecode ==
    /\ InitProgram
    /\ dir_exists = FALSE
    /\ nc_files = <<>>
    /\ call \in {[op |-> "process_netcdf_file", ds |-> ds] :
                    ds \in GenDatasets(MaxProfiles, MaxLevels)
                             \cup FailingDatasets(MaxProfiles, MaxLevels)
                             \cup {CorruptFile}}

DecodeFile ==
    /\ call.op = "process_netcdf_file"
    /\ ~ret.done
    /\ ret' = [done |-> TRUE, value |-> process_netcdf_file(call.ds, Now(clock))]
    /\ UNCHANGED <<nc_files, dir_exists, program_vars, call>>

SpecDecode == InitDecode /\ [][DecodeFile]_vars

----------------------------------------------------------------------------
(* The command surface (src/backend/argo_cli.py).  Every invocation is a   *)
(* process of its own; ret.stdout is what it has printed.                  *)

Modes == {"query", "semantic_search", "process_directory", "stats", "none"}

\* The dict a function returned, as json.dumps prints it.
Returned(r) == [k \in (DOMAIN r) \ {"raised"} |-> r[k]]

\* Line 97.
ErrorObject == [success |-> FALSE, error |-> "str(e)"]

\* Lines 544-558, on a processor of its own that loads the pickle file.
semantic_search_profiles(d, query, top_k) ==
    LET loaded == IF d.state = "file" THEN LoadBlob(d.blob, <<>>, Unfitted)
                  ELSE [vector_store |-> <<>>, vectorizer |-> Unfitted]
    IN  [success |-> TRUE, query |-> query,
         results |-> search_similar_profiles(loaded.vector_store, loaded.vectorizer,
                                             query, top_k).result]

\* Lines 77-86: the counts, the first and last measurement_time, the rows
\* of each region.
Stats(floats, profiles) ==
    [success            |-> TRUE,
     total_measurements |-> Cardinality(floats),
     total_profiles     |-> Cardinality(profiles),
     date_range         |-> IF floats = {} THEN [start |-> NULL, end |-> NULL]
                            ELSE [start |-> SetMin({r.measurement_time : r \in floats}),
                                  end   |-> SetMax({r.measurement_time : r \in floats})],
     region_distribution |->
         {[region |-> g, count |-> Cardinality({r \in floats : r.ocean_region = g})] :
             g \in {r.ocean_region : r \in floats}}]

\* The invocation before, if any, has ended.
CliIdle == pc = "idle" /\ (call.op = "main" => "stdout" \in DOMAIN ret)

\* What an invocation that runs no directory leaves alone.
cli_frame ==
    <<nc_files, dir_exists, pc, runs, run_vars, db_vars, index_vars, disk, saved,
      clock, import_time>>

\* Lines 23-33: --query; the argument is JSON or not.
CliQuery ==
    /\ CliIdle
    /\ \E json_ok \in BOOLEAN, a \in QueryArgs,
          outcome \in {"ok", "no_session", "query_error"} :
          \E r \in {query_argo_data(argo_floats, a, Matching(argo_floats, a), outcome)} :
             /\ call' = [op |-> "main", mode |-> "query"]
             /\ ret' = [done |-> TRUE,
                        stdout |-> IF json_ok /\ ~r.raised THEN <<Returned(r)>>
                                   ELSE <<ErrorObject>>]
    /\ UNCHANGED cli_frame

\* Lines 35-42: --semantic-search.
CliSearch ==
    /\ CliIdle
    /\ \E json_ok \in BOOLEAN, text \in QueryTexts, top_k \in TopKs :
          /\ call' = [op |-> "main", mode |-> "semantic_search"]
          /\ ret' = [done |-> TRUE,
                     stdout |-> IF json_ok
                                THEN <<semantic_search_profiles(disk, text, top_k)>>
                                ELSE <<ErrorObject>>]
    /\ UNCHANGED cli_frame

\* Lines 44-47: --process-directory; a new ARGODataProcessor, and
\* process_directory is called (lines 424-435).
CliProcessDirectory ==
    /\ CliIdle
    /\ runs < MaxRuns
    /\ runs' = runs + 1
    /\ call' = [op |-> "main", mode |-> "process_directory"]
    /\ engine' = FALSE
    /\ Session' = FALSE
    /\ vectorizer' = Unfitted
    /\ vector_store' = <<>>
    /\ embed_lens' = {}
    /\ log' = <<>>
    /\ float_data' = EmptyList
    /\ profile_data' = EmptyDict
    /\ IF dir_exists /\ nc_files # <<>>
       THEN pc' = "decode" /\ file_idx' = 1 /\ ret' = NoRet
       ELSE pc' = "idle" /\ file_idx' = 0 /\ ret' = [done |-> TRUE]
    /\ UNCHANGED <<nc_files, dir_exists, argo_floats, argo_profiles, open_sessions,
                   disk, saved, clock, import_time>>

\* Line 48, when process_directory has returned.
CliProcessed ==
    /\ pc = "idle"
    /\ call.op = "main"
    /\ call.mode = "process_directory"
    /\ "stdout" \notin DOMAIN ret
    /\ ret' = [done |-> TRUE,
               stdout |-> <<[success |-> TRUE, message |-> "Processed directory"]>>]
    /\ UNCHANGED <<cli_frame, call>>

\* Lines 50-91: --stats; the database is reached or not, the statements run
\* or raise.
CliStats ==
    /\ CliIdle
    /\ \E outcome \in {"ok", "no_session", "sql_error"} :
          /\ call' = [op |-> "main", mode |-> "stats"]
          /\ ret' = [done |-> TRUE,
                     stdout |-> IF outcome = "ok"
                                THEN <<Stats(argo_floats, argo_profiles)>>
                                ELSE <<ErrorObject>>]
    /\ UNCHANGED cli_frame

\* Lines 93-94: no mode is given.
CliNone ==
    /\ CliIdle
    /\ call' = [op |-> "main", mode |-> "none"]
    /\ ret' = [done |-> TRUE, stdout |-> <<[error |-> "No valid command provided"]>>]
    /\ UNCHANGED cli_frame

NextCli ==
    \/ CliQuery
    \/ CliSearch
    \/ CliProcessDirectory
    \/ Decode
    \/ Store
    \/ Index
    \/ CliProcessed
    \/ CliStats
    \/ CliNone

SpecCli == Init /\ [][NextCli]_vars

----------------------------------------------------------------------------
(* Claims about the decoder (under SpecDecode). *)

\* The file of the call was decoded without error.
Decoded ==
    /\ call.op = "process_netcdf_file"
    /\ ret.done
    /\ call.ds.opens
    /\ \A c \in DOMAIN call.ds.N_PROF : call.ds.N_PROF[c].reads

\* The (profile index, level index) pairs of a dataset whose temperature,
\* salinity and pressure are all read, and those of one profile.
ValidPairs(ds) ==
    {pr \in UNION {{<<c, l>> : l \in DOMAIN ds.N_PROF[c].TEMP} : c \in DOMAIN ds.N_PROF} :
        /\ ds.N_PROF[pr[1]].TEMP[pr[2]] # NaN
        /\ ds.N_PROF[pr[1]].PSAL[pr[2]] # NaN
        /\ ds.N_PROF[pr[1]].PRES[pr[2]] # NaN}

ValidCount(ds, c) == Cardinality({pr \in ValidPairs(ds) : pr[1] = c})

\* The place of a valid pair among the valid pairs, by profile then level.
PairRank(ds, pr) ==
    1 + Cardinality({q \in ValidPairs(ds) :
                        q[1] < pr[1] \/ (q[1] = pr[1] /\ q[2] < pr[2])})

\* C1: a decoded file gives exactly one Measurement per (profile index,
\* level index) whose temperature, salinity and pressure are all non-NaN, in
\* the order of the file, and none for any other level; no Measurement holds
\* a NaN.
C1_OneMeasurementPerValidLevel ==
    Decoded =>
        LET ds == call.ds
            fd == ret.value.float_data
        IN  /\ Len(fd) = Cardinality(ValidPairs(ds))
            /\ \A pr \in ValidPairs(ds) :
                  LET m == fd[PairRank(ds, pr)]
                      p == ds.N_PROF[pr[1]]
                  IN  /\ m.cycle_number = p.CYCLE_NUMBER
                      /\ m.metadata.level_index = pr[2] - 1
                      /\ m.temperature = p.TEMP[pr[2]]
                      /\ m.salinity = p.PSAL[pr[2]]
                      /\ m.pressure = p.PRES[pr[2]]
            /\ \A i \in DOMAIN fd :
                  fd[i].temperature # NaN /\ fd[i].salinity # NaN /\ fd[i].pressure # NaN

\* A file of two profiles was decoded, one of them with some but not all of
\* its levels valid, and Measurements came out.
C1_Witness ==
    /\ Decoded
    /\ Len(call.ds.N_PROF) = 2
    /\ \E c \in DOMAIN call.ds.N_PROF :
          /\ 0 < ValidCount(call.ds, c)
          /\ ValidCount(call.ds, c) < Len(call.ds.N_PROF[c].TEMP)
    /\ Len(ret.value.float_data) >= 2

\* The Profiles a decode result holds.
ResultProfiles == IF ret.value.profile_data = EmptyDict THEN {} ELSE {ret.value.profile_data}

\* C2: for every profile index of a decoded file whose profiles have
\* distinct cycle numbers: with K > 0 valid levels of N the result holds
\* exactly one Profile with that profile's key, data_quality_score = K/N and
\* num_measurements = K, with K = 0 none; a file of P profiles with a valid
\* level each gives P Profiles.
C2_OneProfilePerProfileIndex ==
    (Decoded /\ \A c, d \in DOMAIN call.ds.N_PROF :
                    c # d => call.ds.N_PROF[c].CYCLE_NUMBER # call.ds.N_PROF[d].CYCLE_NUMBER)
    => \A c \in DOMAIN call.ds.N_PROF :
          LET K == ValidCount(call.ds, c)
              N == Len(call.ds.N_PROF[c].TEMP)
              mine == {p \in ResultProfiles :
                          p.id = <<call.ds.platform_number, call.ds.N_PROF[c].CYCLE_NUMBER>>}
          IN  IF K > 0
              THEN /\ Cardinality(mine) = 1
                   /\ \A p \in mine : /\ p.data_quality_score[1] * N = K * p.data_quality_score[2]
                                      /\ p.num_measurements = K
              ELSE mine = {}

----------------------------------------------------------------------------
(* Claims about the classifier (under SpecRegion). *)

\* The boxes of rules 1 to 5, in their order.
BoxRules ==
    <<[name |-> "North Atlantic", lon |-> <<-180, -60>>, lat |-> <<10, 70>>],
      [name |-> "North Pacific",  lon |-> <<60, 180>>,   lat |-> <<10, 70>>],
      [name |-> "South Atlantic", lon |-> <<-60, 20>>,   lat |-> <<-60, 10>>],
      [name |-> "South Pacific",  lon |-> <<20, 180>>,   lat |-> <<-60, 10>>],
      [name |-> "Indian Ocean",   lon |-> <<20, 120>>,   lat |-> <<-40, 30>>]>>

InBox(i, lat, lon) ==
    /\ lat # NaN /\ lon # NaN
    /\ BoxRules[i].lon[1] <= lon /\ lon <= BoxRules[i].lon[2]
    /\ BoxRules[i].lat[1] <= lat /\ lat <= BoxRules[i].lat[2]

\* The region of the first rule of the list 1-8 that matches.
FirstMatch(lat, lon) ==
    IF \E i \in 1..5 : InBox(i, lat, lon)
    THEN BoxRules[CHOOSE i \in 1..5 :
                     InBox(i, lat, lon) /\ \A j \in 1..(i - 1) : ~InBox(j, lat, lon)].name
    ELSE IF lat # NaN /\ lat > 70 THEN "Arctic Ocean"
    ELSE IF lat # NaN /\ lat < -60 THEN "Southern Ocean"
    ELSE "Unknown"

\* C6: determine_ocean_region returns, for every (lat, lon), the region of
\* the first matching rule of the ordered list, which is one of the 8 names.
C6_FirstMatchingRule ==
    (call.op = "determine_ocean_region" /\ ret.done) =>
        /\ ret.value = FirstMatch(call.lat, call.lon)
        /\ ret.value \in RegionNames

\* A point in the boxes of rules 4 and 5 was classified by rule 4.
C6_Witness ==
    /\ call.op = "determine_ocean_region" /\ ret.done
    /\ InBox(4, call.lat, call.lon) /\ InBox(5, call.lat, call.lon)
    /\ ret.value = "South Pacific"

----------------------------------------------------------------------------
(* Claims about the directory run and the store (under Spec, LiveSpec). *)

Keys(table) == {r.id : r \in table}

Last(seq) == seq[Len(seq)]

\* The step is a store_to_postgresql call that committed.
Committed == pc = "store" /\ pc' = "index"

\* The step is a store_to_postgresql call that raised.
StoreRaised == pc = "store" /\ log' # log /\ Last(log')[2] = "failed"

\* The rows of the file being stored are in the store already: the file was
\* ingested before.
AlreadyStored ==
    /\ \A i \in DOMAIN float_data : float_data[i].id \in Keys(argo_floats)
    /\ profile_data.id \in Keys(argo_profiles)

\* C3 as stated: ingesting a file of the unchanged directory again leaves
\* the store with exactly the rows it had.
C3_SameRows ==
    [][(Committed /\ AlreadyStored) =>
          (argo_floats' = argo_floats /\ argo_profiles' = argo_profiles)]_vars

\* The cycle of the file being stored has no timestamp of its own.
NoTimestamp(cycle_number) ==
    \E c \in DOMAIN nc_files[file_idx].N_PROF :
        /\ nc_files[file_idx].N_PROF[c].CYCLE_NUMBER = cycle_number
        /\ nc_files[file_idx].N_PROF[c].JULD = NaN

\* Two rows agree on every column that is not taken from the wall clock.
SameButClock(old, new, time_column) ==
    /\ DOMAIN old = DOMAIN new
    /\ \A k \in DOMAIN old \ {time_column, "processing_metadata"} : old[k] = new[k]
    /\ old[time_column] = new[time_column] \/ NoTimestamp(new.cycle_number)
    /\ "processing_metadata" \in DOMAIN old =>
          /\ old.processing_metadata.total_levels = new.processing_metadata.total_levels
          /\ old.processing_metadata.valid_levels = new.processing_metadata.valid_levels

\* C3, amended: ingesting a file again leaves the store with the same
\* primary keys and row counts, one row per key, and each row as it was in
\* every column but the wall-clock ones (processed_at; measurement_time and
\* profile_date of a profile without timestamp); and storing the same decoded
\* data twice leaves the rows of the first time.
C3_SameKeysAndCounts ==
    [][(Committed /\ AlreadyStored) =>
          /\ Keys(argo_floats') = Keys(argo_floats)
          /\ Keys(argo_profiles') = Keys(argo_profiles)
          /\ Cardinality(argo_floats') = Cardinality(argo_floats)
          /\ Cardinality(argo_profiles') = Cardinality(argo_profiles)
          /\ Cardinality(argo_floats') = Cardinality(Keys(argo_floats'))
          /\ Cardinality(argo_profiles') = Cardinality(Keys(argo_profiles'))
          /\ \A new \in argo_floats' : \E old \in argo_floats :
                old.id = new.id /\ SameButClock(old, new, "measurement_time")
          /\ \A new \in argo_profiles' : \E old \in argo_profiles :
                old.id = new.id /\ SameButClock(old, new, "profile_date")
          /\ LET again == StoreSession([floats |-> argo_floats', profiles |-> argo_profiles'],
                                       float_data, profile_data, 0, import_time)
             IN  again.db.floats = argo_floats' /\ again.db.profiles = argo_profiles'
       ]_vars

\* In the second run a file was committed whose Profile the first run had
\* stored and indexed, and the row now carries the second decode.
C3_Witness ==
    /\ runs = 2 /\ pc = "index"
    /\ KeyIndex(vector_store, profile_data.id) # 0
    /\ \E r \in argo_profiles :
          /\ r.id = profile_data.id
          /\ r.processing_metadata.processed_at = profile_data.processing_metadata.processed_at
          /\ r.processing_metadata.processed_at > Now(0)

\* A run of process_directory over an existing directory has returned.
RunReturned == pc = "idle" /\ call.op = "process_directory" /\ dir_exists

\* The keys of the Measurements and of the Profile that decoding file i gives.
FileFloatKeys(i) ==
    LET r == process_netcdf_file(nc_files[i], Now(0))
    IN  {r.float_data[k].id : k \in DOMAIN r.float_data}

FileProfileKeys(i) ==
    LET r == process_netcdf_file(nc_files[i], Now(0))
    IN  IF r.profile_data = EmptyDict THEN {} ELSE {r.profile_data.id}

\* C4: a run attempts every file once, in sequence, whatever fails: when it
\* has returned the log holds one entry per file, in order; the first run on
\* an empty store leaves exactly the rows of the files that did not fail (of
\* a corrupt and a valid file, the valid file's rows); and every run returns.
C4_EveryFileOnce ==
    /\ [](RunReturned =>
            /\ Len(log) = Len(nc_files)
            /\ \A i \in DOMAIN log : log[i][1] = i)
    /\ []((RunReturned /\ runs = 1) =>
            /\ Keys(argo_floats) =
                 UNION {FileFloatKeys(i) : i \in {j \in DOMAIN log : log[j][2] = "ok"}}
            /\ Keys(argo_profiles) =
                 UNION {FileProfileKeys(i) : i \in {j \in DOMAIN log : log[j][2] = "ok"}})
    /\ [][pc # "idle" => file_idx' \in {file_idx, file_idx + 1}]_vars
    /\ [](pc # "idle" => <>(pc = "idle"))

\* A run has returned in which the first file failed and the second file was
\* stored.
C4_Witness ==
    /\ RunReturned /\ runs = 1
    /\ Len(log) = 2
    /\ log[1][2] = "failed" /\ log[2][2] = "ok"
    /\ argo_floats # {}
    /\ \A r \in argo_floats : r.data_source = nc_files[2].file_path

\* C5: a store_to_postgresql call that raises leaves both tables as they
\* were, leaves no session open, and is caught at the file: the file is
\* logged as failed and the run goes on; a call that commits has written
\* every Measurement and the Profile; no session stays open.
C5_AllOrNothing ==
    /\ [][StoreRaised =>
            /\ argo_floats' = argo_floats
            /\ argo_profiles' = argo_profiles
            /\ open_sessions' = 0
            /\ Last(log')[1] = file_idx
            /\ pc' = IF file_idx < Len(nc_files) THEN "decode" ELSE "idle"]_vars
    /\ [][Committed =>
            /\ \A i \in DOMAIN float_data : float_data[i].id \in Keys(argo_floats')
            /\ profile_data.id \in Keys(argo_profiles')]_vars
    /\ [](open_sessions = 0)

\* A store call on a file of several Measurements raised inside its session,
\* and the store holds nothing.
C5_Witness ==
    /\ log # <<>>
    /\ Last(log)[2] = "failed"
    /\ Len(float_data) >= 2
    /\ Session
    /\ argo_floats = {} /\ argo_profiles = {}

----------------------------------------------------------------------------
(* Claims about the embedding index (under SpecIndex). *)

Min(a, b) == IF a < b THEN a ELSE b

\* The last call was a search for at least no entry.
SearchReturned == call.op = "search_similar_profiles" /\ ret.done /\ call.top_k >= 0

\* The entry of the vector store that a search result was made of.
StoredAs(res) == vector_store[KeyIndex(vector_store, res.profile_id)]

\* C7: search_similar_profiles(text, top_k) with top_k >= 0 on a store of M
\* entries returns min(M, top_k) entries, each made of an entry of the store
\* and no entry twice, in non-increasing similarity, entries of equal
\* similarity in the insertion order of the store, and no entry left out is
\* more similar than one returned; on an empty store it returns the empty
\* list.
C7_TopKInOrder ==
    SearchReturned =>
        LET res == ret.value
        IN  /\ vector_store = <<>> => res = <<>>
            /\ Len(res) = Min(Len(vector_store), call.top_k)
            /\ \A i \in DOMAIN res :
                  /\ KeyIndex(vector_store, res[i].profile_id) # 0
                  /\ res[i].similarity = Cosine(ret.vector, StoredAs(res[i]).vector)
                  /\ res[i].metadata = StoredAs(res[i]).metadata
                  /\ res[i].text = StoredAs(res[i]).text
            /\ \A i, j \in DOMAIN res :
                  i < j =>
                     /\ res[i].profile_id # res[j].profile_id
                     /\ ~SimGreater(res[j].similarity, res[i].similarity)
                     /\ ~SimGreater(res[i].similarity, res[j].similarity) =>
                           KeyIndex(vector_store, res[i].profile_id)
                              < KeyIndex(vector_store, res[j].profile_id)
            /\ \A k \in DOMAIN vector_store :
                  (\A i \in DOMAIN res : res[i].profile_id # vector_store[k].profile_id) =>
                     \A i \in DOMAIN res :
                        ~SimGreater(Cosine(ret.vector, vector_store[k].vector),
                                    res[i].similarity)

\* A search for five entries on a store of two returned both, of equal
\* similarity.
C7_Witness ==
    /\ SearchReturned
    /\ call.top_k = 5
    /\ Len(vector_store) = 2
    /\ Len(ret.value) = 2
    /\ ret.value[1].similarity = ret.value[2].similarity

\* C8 as stated: the vectors that create_vector_embedding has produced in
\* this processor, the vectors of the store and the query vectors all have
\* one length.
C8_OneLength ==
    Cardinality(embed_lens \cup {Len(vector_store[i].vector) : i \in DOMAIN vector_store}) <= 1

\* The step is a load_vector_store call.
LoadStep == call'.op = "load_vector_store"

\* C9: load_vector_store on the file that save_vector_store wrote restores
\* the vector table and the vectorizer that were saved, so that every search
\* returns what it returned on the saved index; where no file exists it
\* raises nothing, returns False and leaves the index as it was.
C9_RoundTrip ==
    /\ [](saved.valid <=> disk.state = "file")
    /\ [][(LoadStep /\ disk.state = "file") =>
            /\ vector_store' = saved.vector_store
            /\ vectorizer' = saved.vectorizer
            /\ vectorizer'.vocabulary = saved.vectorizer.vocabulary
            /\ \A text \in QueryTexts, top_k \in TopKs :
                  search_similar_profiles(vector_store', vectorizer', text, top_k).result
                     = search_similar_profiles(saved.vector_store, saved.vectorizer,
                                               text, top_k).result
            /\ ret'.value = TRUE]_vars
    /\ [][(LoadStep /\ disk.state = "absent") =>
            /\ vector_store' = vector_store
            /\ vectorizer' = vectorizer
            /\ ret' = [done |-> TRUE, value |-> FALSE]]_vars

\* A fresh processor has loaded a saved index of two entries.
C9_Witness ==
    /\ call.op = "load_vector_store"
    /\ call.fresh
    /\ ret.value = TRUE
    /\ Len(vector_store) = 2
    /\ vectorizer.fitted

----------------------------------------------------------------------------
(* Claims about the query surface (under SpecQuery). *)

\* The last call was a query that returned rows.
QueryReturned ==
    /\ call.op = "query_argo_data"
    /\ ~ret.value.raised
    /\ ret.value.success

\* C10 as stated: query_argo_data returns at most 1000 rows, and every row
\* satisfies every filter that was supplied: the region, whichever of the 8
\* names it is, the start and end of the time, the temperature range and the
\* salinity range.
C10_EveryRowPassesEveryFilter ==
    QueryReturned =>
        LET a == call.args
            data == ret.value.data
        IN  /\ Len(data) <= QueryLimit
            /\ ret.value.count = Len(data)
            /\ \A i \in DOMAIN data :
                  /\ a.region # <<>> => data[i].ocean_region = a.region[1]
                  /\ a.start_date # <<>> => data[i].time >= a.start_date[1]
                  /\ a.end_date # <<>> => data[i].time <= a.end_date[1]
                  /\ a.temperature_range # <<>> =>
                        /\ Le(a.temperature_range[1], data[i].temperature)
                        /\ Le(data[i].temperature, a.temperature_range[2])
                  /\ a.salinity_range # <<>> =>
                        /\ Le(a.salinity_range[1], data[i].salinity)
                        /\ Le(data[i].salinity, a.salinity_range[2])

----------------------------------------------------------------------------
(* Claims about the directory run, the store and the index together       *)
(* (under Spec).                                                           *)

\* The file last logged was stored and indexed: its Profile dict carries the
\* vector that store_to_vector_database computed.
FileIndexed ==
    /\ log # <<>>
    /\ Last(log)[2] = "ok"
    /\ profile_data # EmptyDict
    /\ "vector_embedding" \in DOMAIN profile_data

\* C11 as stated: once a file is stored and indexed, the Profile row of the
\* store carries the embedding vector that the indexing step computed.
C11_RowCarriesEmbedding ==
    FileIndexed =>
        \E r \in argo_profiles :
            /\ r.id = profile_data.id
            /\ r.vector_embedding = profile_data.vector_embedding

----------------------------------------------------------------------------
(* Claims about the command surface (under SpecCli). *)

\* An invocation of the command surface has ended.
CliAnswered == call.op = "main" /\ "stdout" \in DOMAIN ret

\* C12 as stated: process-directory on a path that does not exist processes
\* no file, leaves the store and the vector store as they were, and does not
\* answer with a success result.
C12_MissingDirectoryIsAFailure ==
    (CliAnswered /\ call.mode = "process_directory" /\ ~dir_exists) =>
        /\ log = <<>>
        /\ file_idx = 0
        /\ argo_floats = {}
        /\ argo_profiles = {}
        /\ vector_store = <<>>
        /\ Len(ret.stdout) = 1
        /\ "success" \in DOMAIN ret.stdout[1]
        /\ ret.stdout[1].success = FALSE

\* C13 as stated: every invocation, whatever the mode, prints exactly one
\* JSON object, with a boolean success field and with an error string or a
\* payload.
C13_OneObjectWithSuccess ==
    CliAnswered =>
        /\ Len(ret.stdout) = 1
        /\ "success" \in DOMAIN ret.stdout[1]
        /\ ret.stdout[1].success \in BOOLEAN
        /\ DOMAIN ret.stdout[1] \ {"success"} # {}

----------------------------------------------------------------------------
(* Claims about the boxes of the classifier (under SpecRegion). *)

\* determine_ocean_region has classified the point of the call.
Classified == call.op = "determine_ocean_region" /\ ret.done

----------------------------------------------------------------------------
(* Claims about the vocabulary (under SpecIndex). *)

\* The step is a call that passes text t to create_vector_embedding: an
\* embed, an index of a Profile, or a search on a store that is not empty.
Embeds(t) ==
    \/ call'.op = "create_vector_embedding" /\ call'.text = t
    \/ /\ call'.op = "search_similar_profiles"
       /\ vector_store # <<>>
       /\ call'.query_text = t
    \/ /\ call'.op = "store_to_vector_database"
       /\ \E pd \in IndexProfiles : pd.id = call'.id /\ pd.summary_text = t

\* The texts of the calls of the model.
Texts == QueryTexts \cup {pd.summary_text : pd \in IndexProfiles}

\* The words of a text that the vocabulary holds.
KnownWords(vz, t) == SelectSeq(t, LAMBDA w : w \in Range(vz.vocabulary))

\* C15 as stated: the vocabulary is fit on the first text passed to
\* create_vector_embedding, and no later call changes it.
C15_FitOnFirstText ==
    [][\A t \in Texts :
          Embeds(t) =>
             IF embed_lens = {} /\ ~vectorizer.fitted
             THEN vectorizer'.fitted /\ vectorizer'.vocabulary = Vocabulary(t)
             ELSE vectorizer' = vectorizer]_vars

\* C15, amended: the vocabulary is fit once, on the first text passed to
\* create_vector_embedding that holds a word that is no stop word; a text
\* of stop words only leaves the vectorizer unfitted, for a later text to
\* fit.  Once fit, no embed, index or search call changes the vocabulary;
\* the vector of a text is made with it, a coordinate per word of the
\* vocabulary, and the words outside it change nothing.
C15_FitOnFirstUsableText ==
    [][\A t \in Texts :
          Embeds(t) =>
             /\ vectorizer.fitted => vectorizer' = vectorizer
             /\ ~vectorizer.fitted =>
                   IF Vocabulary(t) = <<>> THEN vectorizer' = vectorizer
                   ELSE vectorizer'.fitted /\ vectorizer'.vocabulary = Vocabulary(t)
             /\ (vectorizer'.fitted /\ call'.op = "create_vector_embedding") =>
                   /\ Len(ret'.value) = Len(vectorizer'.vocabulary)
                   /\ \A i \in DOMAIN ret'.value :
                         ret'.value[i] =
                            Cardinality({j \in DOMAIN t : t[j] = vectorizer'.vocabulary[i]})
                   /\ ret'.value = create_vector_embedding(
                                      vectorizer', KnownWords(vectorizer', t)).vector]_vars

\* A text of words outside the fitted vocabulary was embedded: the
\* vocabulary stayed and the vector is zero.
C15_Witness ==
    /\ call.op = "create_vector_embedding"
    /\ call.text = <<"north", "atlantic", "profile">>
    /\ vectorizer.vocabulary = <<"argo", "float">>
    /\ ret.value = <<0, 0>>

----------------------------------------------------------------------------
(* Claims about failing files (under SpecDecode). *)

\* The file of the call cannot be opened, or one of its profile indices
\* cannot be read.
ReadFailed ==
    /\ call.op = "process_netcdf_file"
    /\ ret.done
    /\ \/ ~call.ds.opens
       \/ \E c \in DOMAIN call.ds.N_PROF : ~call.ds.N_PROF[c].reads

\* C16: process_netcdf_file returns a result for every file, and for a file
\* that fails while it is read, at whatever profile index, the empty result:
\* no Measurement and no Profile, whatever was decoded before the failure;
\* with no Measurement the file leaves the tables as they were.
C16_FailureGivesNothing ==
    /\ (call.op = "process_netcdf_file" /\ ret.done) =>
          DOMAIN ret.value = {"float_data", "profile_data"}
    /\ ReadFailed =>
          /\ ret.value.float_data = EmptyList
          /\ ret.value.profile_data = EmptyDict
          /\ StoreSession([floats |-> argo_floats, profiles |-> argo_profiles],
                          ret.value.float_data, ret.value.profile_data, 0,
                          import_time).db
                = [floats |-> argo_floats, profiles |-> argo_profiles]

\* A file failed at its second profile index, after a first profile with a
\* valid level, and nothing came out.
C16_Witness ==
    /\ ReadFailed
    /\ Len(call.ds.N_PROF) = 2
    /\ call.ds.N_PROF[1].reads
    /\ ValidCount(call.ds, 1) > 0
    /\ ~call.ds.N_PROF[2].reads
    /\ ret.value.float_data = EmptyList

----------------------------------------------------------------------------
(* Claims about the order of store and index (under Spec). *)

\* The profile ids of the vector store.
IndexedKeys == {vector_store[i].profile_id : i \in DOMAIN vector_store}

\* The step decodes a file that gives no Measurement.
DecodedNothing == pc = "decode" /\ pc' # "store"

\* C17: in a directory run the vector store is written only by the indexing
\* step of a file whose store call has committed, when the Profile row is in
\* the store; a store call that raises and a file without Measurements leave
\* the vector store as it was (the latter the tables too) and the next step
\* is the next file; every entry of the vector store has its Profile row.
C17_IndexAfterCommit ==
    /\ [][(vector_store' # vector_store /\ vector_store' # <<>>) =>
            /\ pc = "index"
            /\ profile_data.id \in Keys(argo_profiles)
            /\ IndexedKeys' = IndexedKeys \cup {profile_data.id}]_vars
    /\ [][StoreRaised => (vector_store' = vector_store /\ pc' # "index")]_vars
    /\ [][DecodedNothing =>
            /\ vector_store' = vector_store
            /\ argo_floats' = argo_floats
            /\ argo_profiles' = argo_profiles
            /\ pc' \in {"decode", "idle"}]_vars
    /\ [][pc' = "index" => (Committed \/ pc = "index")]_vars
    /\ [](IndexedKeys \subseteq Keys(argo_profiles))

\* A run has returned whose first file was stored and indexed and whose
\* second file failed in the store: the vector store holds the first only.
C17_Witness ==
    /\ RunReturned
    /\ Len(log) = 2
    /\ log[1][2] = "ok" /\ log[2][2] = "failed"
    /\ FileProfileKeys(2) # {}
    /\ IndexedKeys = FileProfileKeys(1)
    /\ IndexedKeys \cap FileProfileKeys(2) = {}

----------------------------------------------------------------------------
(* Claims about Measurements and their Profile (under Spec). *)

\* The Measurement rows of a (platform_number, cycle_number).
RowsOf(platform_number, cycle_number) ==
    {m \in argo_floats :
        m.platform_number = platform_number /\ m.cycle_number = cycle_number}

\* C18 as stated: when a run has returned, every Measurement row has a
\* Profile row of its (platform_number, cycle_number), whose
\* num_measurements is the number of Measurement rows of that key.
C18_EveryMeasurementHasItsProfile ==
    RunReturned =>
        \A m \in argo_floats :
            \E p \in argo_profiles :
                /\ p.platform_number = m.platform_number
                /\ p.cycle_number = m.cycle_number
                /\ p.num_measurements =
                      Cardinality(RowsOf(m.platform_number, m.cycle_number))

====
